---------------------------- MODULE Spec2Model ----------------------------
(***************************************************************************)
(* The websocket message handler of src/main.cpp (the telemetry-to-control *)
(* pipeline around MPC::Solve) as a state machine.                         *)
(*                                                                         *)
(* Numbers.  A double is modelled as a fixed-point integer counting        *)
(* thousandths (1.0 is 1000); products and quotients round toward zero.    *)
(* cos, sin and atan are tables of the library's values at the angles the  *)
(* bounded inputs produce, rounded to thousandths.                         *)
(*                                                                         *)
(* Text.  A websocket frame is a sequence of lexemes: the punctuation      *)
(* characters one by one, the literal null, and every quoted string as one *)
(* lexeme named by its content.  The member list of the telemetry object   *)
(* is the lexeme "#", whose decoded value is the frame's obj field.        *)
(***************************************************************************)
EXTENDS Integers, Sequences, FiniteSets, TLC

VARIABLES alive, inbox, arrived, pc, cycle, prev

vars == <<alive, inbox, arrived, pc, cycle, prev>>

---------------------------------------------------------------------------
(* Bounds of the model *)

\* Frames that arrive over all connections in one run.
MaxFrames == 2

\* Longest result vector the optimizer returns.
MaxVars == 6

\* The connections served by the one Hub.
Conns == {"A", "B"}

---------------------------------------------------------------------------
(* Fixed-point arithmetic on doubles *)

Abs(a) == IF a < 0 THEN 0 - a ELSE a

Sgn(a) == IF a < 0 THEN 0 - 1 ELSE 1

Max(a, b) == IF a >= b THEN a ELSE b

Min(a, b) == IF a <= b THEN a ELSE b

\* a * b of two doubles; the larger factor is split so that no
\* intermediate product leaves the machine integers of TLC.
FMul(a, b) ==
  LET p == Max(Abs(a), Abs(b))
      q == Min(Abs(a), Abs(b))
  IN  Sgn(a) * Sgn(b) * ((p \div 1000) * q + ((p % 1000) * q) \div 1000)

\* a / b of two doubles, b # 0.
FDiv(a, b) == Sgn(a) * Sgn(b) * ((Abs(a) * 1000) \div Abs(b))

\* pow(x, i) of math.h for an integer exponent i >= 0; pow(x, 0) is 1.
RECURSIVE pow(_, _)
pow(x, i) == IF i = 0 THEN 1000 ELSE FMul(pow(x, i - 1), x)

\* M_PI
pi == 3142

deg2rad(x) == FDiv(FMul(x, pi), 180000)

\* cos, sin, atan of math.h, tabulated at the angles the inputs reach.
cos(a) ==
  CASE Abs(a) = 0    -> 1000
    [] Abs(a) = 785  -> 707
    [] Abs(a) = 1107 -> 447
    [] Abs(a) = 1249 -> 316
    [] Abs(a) = 1571 -> 0
    [] Abs(a) = 3142 -> 0 - 1000

sin(a) ==
  Sgn(a) * (CASE Abs(a) = 0    -> 0
              [] Abs(a) = 785  -> 707
              [] Abs(a) = 1107 -> 894
              [] Abs(a) = 1249 -> 949
              [] Abs(a) = 1571 -> 1000
              [] Abs(a) = 3142 -> 0)

atan(a) ==
  Sgn(a) * (CASE Abs(a) = 0    -> 0
              [] Abs(a) = 1000 -> 785
              [] Abs(a) = 2000 -> 1107
              [] Abs(a) = 3000 -> 1249)

---------------------------------------------------------------------------
(* Frames and JSON values *)

\* string::npos
npos == -1

\* s.find(lexeme): the first position (from 0) holding it, or npos.
find(s, w) ==
  IF \E i \in 1..Len(s) : s[i] = w
  THEN (CHOOSE i \in 1..Len(s) : s[i] = w /\ \A k \in 1..(i - 1) : s[k] # w) - 1
  ELSE npos

\* s.rfind("}]"): the last position (from 0) where "}" is followed by "]".
rfind2(s, w1, w2) ==
  LET hit(i) == s[i] = w1 /\ s[i + 1] = w2
  IN  IF \E i \in 1..(Len(s) - 1) : hit(i)
      THEN (CHOOSE i \in 1..(Len(s) - 1) :
              hit(i) /\ \A k \in (i + 1)..(Len(s) - 1) : ~hit(k)) - 1
      ELSE npos

\* s.substr(pos, n): at most n lexemes from position pos (from 0).
substr(s, pos, n) == SubSeq(s, pos + 1, Min(pos + n, Len(s)))

hasData(s) ==
  LET found_null == find(s, "null")
      b1 == find(s, "[")
      b2 == rfind2(s, "}", "]")
  IN  IF found_null # npos THEN <<>>
      ELSE IF b1 # npos /\ b2 # npos THEN substr(s, b1, b2 - b1 + 2)
      ELSE <<>>

---------------------------------------------------------------------------
(* The telemetry object and the frames a client can send *)

Fields1 == {"ptsx", "ptsy", "x", "y", "psi", "speed"}

Fields2 == {"steering_angle", "throttle"}

\* The decoded members of a telemetry object; keys are the members present.
Tel(ptsx, ptsy, psi, v, steer, throttle, keys) ==
  [keys |-> keys, ptsx |-> ptsx, ptsy |-> ptsy, x |-> 0, y |-> 0, psi |-> psi,
   speed |-> v, steering_angle |-> steer, throttle |-> throttle]

NoObj == Tel(<<>>, <<>>, 0, 0, 0, 0, {})

\* An engine.io frame that is no "42" event.
Ping == [text |-> <<"2">>, obj |-> NoObj]

\* 42["telemetry",null]: the simulator in manual mode.
NullFrame == [text |-> <<"4", "2", "[", "telemetry", ",", "null", "]">>, obj |-> NoObj]

\* 42["manual",{}]: an event with another tag and a data payload.
ManualFrame == [text |-> <<"4", "2", "[", "manual", ",", "{", "}", "]">>, obj |-> NoObj]

\* 42["telemetry",{...}]
TelemetryFrame(o) ==
  [text |-> <<"4", "2", "[", "telemetry", ",", "{", "#", "}", "]">>, obj |-> o]

AllFields == Fields1 \cup Fields2

Line4 == <<0, 1000, 2000, 3000>>

\* Well-formed samples: four waypoints on y = x, on y = 1 - x, on y = 0,
\* and four waypoints on the world y axis seen at heading pi/2.
GoodWaypoints ==
  { <<Line4, Line4, 0>>,
    <<Line4, <<1000, 0, 0 - 1000, 0 - 2000>>, 0>>,
    <<Line4, <<0, 0, 0, 0>>, 0>>,
    <<<<0, 0, 0, 0>>, Line4, 1571>> }

\* Malformed samples: ptsy longer, ptsy shorter, too few points, no points.
BadWaypoints ==
  { <<Line4, <<0, 1000, 2000, 3000, 4000>>, 0>>,
    <<Line4, <<0, 1000, 2000>>, 0>>,
    <<<<0, 1000, 2000>>, <<0, 1000, 2000>>, 0>>,
    <<<<0, 1000, 2000>>, <<0, 1000>>, 0>>,
    <<<<>>, <<>>, 0>> }

Speeds == {0, 1000, 2000}

Steers == {0 - 1000, 0, 500}

Throttles == {0, 1000}

\* The telemetry frames of a run that starts with one frame already buffered.
CalcFrames ==
  { TelemetryFrame(Tel(w[1], w[2], w[3], v, st, th, AllFields)) :
      w \in GoodWaypoints \cup BadWaypoints, v \in Speeds, st \in Steers,
      th \in Throttles }

\* The frames that arrive while the server runs: the three frames that are
\* no telemetry, two well-formed samples, one with too few points and one
\* without its speed.
ServeFrames ==
  { Ping, NullFrame, ManualFrame }
  \cup { TelemetryFrame(Tel(Line4, Line4, 0, 1000, 0, 0, AllFields)),
         TelemetryFrame(Tel(Line4, <<0, 0, 0, 0>>, 0, 2000, 500, 1000, AllFields)),
         TelemetryFrame(Tel(<<0, 1000, 2000>>, <<0, 1000, 2000>>, 0, 1000, 0, 0, AllFields)),
         TelemetryFrame(Tel(Line4, Line4, 0, 1000, 0, 0, AllFields \ {"speed"})) }

\* 42manual: a "42" event without brackets.
BareFrame == [text |-> <<"4", "2", "manual">>, obj |-> NoObj]

\* A sample without its throttle.
NoThrottleFrame ==
  TelemetryFrame(Tel(Line4, Line4, 0, 1000, 0, 0, AllFields \ {"throttle"}))

AllFrames == ServeFrames \cup CalcFrames \cup { BareFrame, NoThrottleFrame }

\* json::parse of the text hasData returned: j[0] is the event tag, j[1] the
\* data object.
parse(s, obj) ==
  [event |-> s[2], data |-> IF find(s, "#") # npos THEN obj ELSE NoObj]

---------------------------------------------------------------------------
(* polyeval and polyfit *)

\* for (i = 0; i < coeffs.size(); i++) result += coeffs[i] * pow(x, i)
RECURSIVE polyeval_to(_, _, _)
polyeval_to(coeffs, x, n) ==
  IF n = 0 THEN 0
  ELSE polyeval_to(coeffs, x, n - 1) + FMul(coeffs[n], pow(x, n - 1))

polyeval(coeffs, x) == polyeval_to(coeffs, x, Len(coeffs))

\* The values a fitted coefficient takes in the model.
CoefGrid == <<0, 1000, 0 - 1000>>

\* The k-th candidate coefficient vector, k counted in base Len(CoefGrid).
RECURSIVE Candidate(_, _)
Candidate(k, n) ==
  IF n = 0 THEN <<>>
  ELSE <<CoefGrid[(k % Len(CoefGrid)) + 1]>> \o Candidate(k \div Len(CoefGrid), n - 1)

\* The sum of the squared residuals of A c = b.
RECURSIVE Dot(_, _, _)
Dot(a, c, n) == IF n = 0 THEN 0 ELSE Dot(a, c, n - 1) + FMul(a[n], c[n])

Square(r) == FMul(r, r)

RECURSIVE Residual(_, _, _, _)
Residual(A, b, c, m) ==
  IF m = 0 THEN 0
  ELSE Residual(A, b, c, m - 1) + Square(Dot(A[m], c, Len(c)) - b[m])

RECURSIVE IPow(_, _)
IPow(w, n) == IF n = 0 THEN 1 ELSE w * IPow(w, n - 1)

RECURSIVE ArgMin(_, _, _, _, _, _)
ArgMin(A, b, n, k, best, bestCost) ==
  IF k = IPow(Len(CoefGrid), n) THEN best
  ELSE LET c == Candidate(k, n)
           cost == Residual(A, b, c, Len(A))
       IN  IF cost < bestCost THEN ArgMin(A, b, n, k + 1, c, cost)
           ELSE ArgMin(A, b, n, k + 1, best, bestCost)

\* A.householderQr().solve(b): the least-squares solution of A c = b, taken
\* on the grid of candidate vectors (the first of the minimisers).
householderQr_solve(A, b, n) ==
  ArgMin(A, b, n, 1, Candidate(0, n), Residual(A, b, Candidate(0, n), Len(A)))

\* Lines 51-61: row j of A is 1, x, x^2, ..., each entry the one before it
\* times xvals(j).
RECURSIVE Row(_, _)
Row(x, order) ==
  IF order = 0 THEN <<1000>>
  ELSE LET r == Row(x, order - 1) IN Append(r, FMul(r[order], x))

RECURSIVE Vandermonde(_, _, _)
Vandermonde(xvals, order, n) ==
  IF n = 0 THEN <<>>
  ELSE Append(Vandermonde(xvals, order, n - 1), Row(xvals[n], order))

RECURSIVE Zeros(_)
Zeros(n) == IF n <= 0 THEN <<>> ELSE Append(Zeros(n - 1), 0)

\* A fit that lowers the degree to what the points allow.
polyfit_lower_degree(xvals, yvals, order) ==
  LET n == Min(Len(xvals), Len(yvals))
      o == Min(order, Max(n - 1, 0))
      low == householderQr_solve(Vandermonde(SubSeq(xvals, 1, n), o, n),
                                 SubSeq(yvals, 1, n), o + 1)
  IN  [abort |-> FALSE, coeffs |-> low \o Zeros(order - o)]

\* polyfit: the two assertions end the process; otherwise the Vandermonde
\* matrix is filled column by column and solved.
polyfit(xvals, yvals, order) ==
  IF ~(Len(xvals) = Len(yvals)) \/ ~(order >= 1 /\ order <= Len(xvals) - 1)
  THEN [abort |-> TRUE, coeffs |-> <<>>]
  ELSE LET A == Vandermonde(xvals, order, Len(xvals))
       IN  [abort |-> FALSE, coeffs |-> householderQr_solve(A, yvals, order + 1)]

---------------------------------------------------------------------------
(* The optimizer and the outcomes of undefined behaviour *)

\* The i-th value (from 1) of an optimizer result: all distinct, both signs.
SolVal(i) == (IF i % 3 = 1 THEN 0 - 1 ELSE 1) * (100 * i + 50)

\* mpc.Solve(state, coeffs): a result vector of any length up to MaxVars.
\* ok is the status of the solver, which the vector returned does not carry.
SolveResults ==
  { [ok |-> b, vars |-> [i \in 1..n |-> SolVal(i)]] : n \in 0..MaxVars, b \in BOOLEAN }

\* A read past the end of a vector: the process is killed, or the read
\* yields whatever the memory holds.
UB == { [crash |-> TRUE, g |-> 0] } \cup { [crash |-> FALSE, g |-> v] : v \in {0, 7000} }

\* v[i], i from 0, of a std::vector read without a bounds check.
At(v, i, g) == IF i < Len(v) THEN v[i + 1] ELSE g

---------------------------------------------------------------------------
(* The stages of the telemetry pipeline *)

Lf == 2670

dt == 100

poly_inc == 2500

num_points == 25

\* Lines 100-111: both vectors have ptsx.size() entries; ptsy[i] is read
\* for every i < ptsx.size().
RECURSIVE Transform_to(_, _, _, _, _, _, _)
Transform_to(ptsx, ptsy, px, py, psi, g, n) ==
  IF n = 0 THEN [x |-> <<>>, y |-> <<>>]
  ELSE LET before == Transform_to(ptsx, ptsy, px, py, psi, g, n - 1)
           dtx == ptsx[n] - px
           dty == At(ptsy, n - 1, g) - py
       IN  [x |-> Append(before.x, FMul(dtx, cos(psi)) + FMul(dty, sin(psi))),
            y |-> Append(before.y, FMul(dty, cos(psi)) - FMul(dtx, sin(psi)))]

Transform(ptsx, ptsy, px, py, psi, g) ==
  Transform_to(ptsx, ptsy, px, py, psi, g, Len(ptsx))

\* Every body-frame path the frames of the model give rise to, with the
\* fit of each, computed once.
Paths ==
  { Transform(o.ptsx, o.ptsy, o.x, o.y, o.psi, u.g) :
      o \in { f.obj : f \in AllFrames }, u \in UB }

\* Lines 178-188: the reference line, num_points samples of the fitted
\* polynomial poly_inc apart.
RECURSIVE next_vals(_, _)
next_vals(coeffs, n) ==
  IF n = 0 THEN [x |-> <<>>, y |-> <<>>]
  ELSE LET before == next_vals(coeffs, n - 1)
       IN  [x |-> Append(before.x, poly_inc * (n - 1)),
            y |-> Append(before.y, polyeval(coeffs, poly_inc * (n - 1)))]

Fits ==
  { [path |-> p, fit |-> polyfit(p.x, p.y, 3)] : p \in Paths }

FitsAndLines ==
  { [path |-> e.path, fit |-> e.fit,
     next |-> IF e.fit.abort THEN next_vals(<<>>, 0)
              ELSE next_vals(e.fit.coeffs, num_points)] : e \in Fits }

\* polyfit(x_car_space, y_car_space, 3) and the reference line of its result.
Fitted(car) == CHOOSE e \in FitsAndLines : e.path = car

\* The steering a cycle would use if it were kept from the cycle before.
steer_value_kept(j1) ==
  IF cycle.msg.event = "steer" THEN cycle.msg.steering_angle ELSE 0

\* double steer_value = j[1]["steering_angle"]
steer_value(j1) == j1.steering_angle

\* double throttle_value = j[1]["throttle"]
throttle_value(j1) == j1.throttle

\* The compensation without the cross-track term.
LatencyState_cte_kept(v, cte, epsi, steer, throttle) ==
  << FMul(v, dt), 0, FMul(FDiv(FMul(0 - v, steer), Lf), dt),
     v + FMul(throttle, dt), cte,
     epsi - FMul(FDiv(FMul(v, steer), Lf), dt) >>

\* Lines 133-141: the state after the latency of dt.
LatencyState(v, cte, epsi, steer, throttle) ==
  << FMul(v, dt),
     0,
     FMul(FDiv(FMul(0 - v, steer), Lf), dt),
     v + FMul(throttle, dt),
     cte + FMul(FMul(v, sin(epsi)), dt),
     epsi - FMul(FDiv(FMul(v, steer), Lf), dt) >>

\* The messages sent over a connection.
Message(event, steering, throttle, mpc_x, mpc_y, next_x, next_y) ==
  [event |-> event, steering_angle |-> steering, throttle |-> throttle,
   mpc_x |-> mpc_x, mpc_y |-> mpc_y, next_x |-> next_x, next_y |-> next_y]

\* 42["manual",{}]
ManualMsg == Message("manual", 0, 0, <<>>, <<>>, <<>>, <<>>)

NoMsg == Message("", 0, 0, <<>>, <<>>, <<>>, <<>>)

\* The entries of vars at the positions i >= 2 (from 0) with i % 2 = parity.
mpc_vals(r, parity) ==
  LET idx == { i \in 2..(Len(r) - 1) : i % 2 = parity }
      nth[k \in 1..Cardinality(idx)] ==
        CHOOSE i \in idx : Cardinality({ m \in idx : m < i }) = k - 1
  IN  [k \in 1..Cardinality(idx) |-> r[nth[k] + 1]]

\* A builder that sends the steering of the solver without reversing it.
BuildSteer_same_sign(r, next, g) ==
  Message("steer", FDiv(At(r, 0, g), FMul(deg2rad(25000), Lf)), At(r, 1, g),
          mpc_vals(r, 0), mpc_vals(r, 1), next.x, next.y)

\* Lines 146-193: the "steer" message built from the result vector.
BuildSteer(r, next, g) ==
  LET steer == 0 - At(r, 0, g)
      throttle == At(r, 1, g)
  IN  Message("steer", FDiv(steer, FMul(deg2rad(25000), Lf)), throttle,
              mpc_vals(r, 0), mpc_vals(r, 1), next.x, next.y)

---------------------------------------------------------------------------
(* The message handler *)

NoFrame == [text |-> <<>>, obj |-> NoObj]

\* What one call of the handler did.  stage is where it stands or ended:
\*   "ignored"  the frame is no "42" event
\*   "manual"   the acknowledgement was sent
\*   "noevent"  a data frame with another tag than "telemetry": nothing sent
\*   "throw"    the JSON library threw and nothing catches: std::terminate
\*   "assert"   an assertion of polyfit failed: abort
\*   "segv"     a read past the end of a vector killed the process
\*   "sleep"    the "steer" message is built, the thread sleeps
\*   "sent"     the "steer" message was sent
\* solved tells that mpc.Solve was called, ok its hidden status; out holds
\* the messages the call has sent.
Cycle(ws, frame, stage) ==
  [conn |-> ws, frame |-> frame, stage |-> stage, coeffs |-> <<>>, state |-> <<>>,
   solved |-> FALSE, ok |-> TRUE, vars |-> <<>>, msg |-> NoMsg, out |-> <<>>]

NoCycle == Cycle("-", NoFrame, "none")

\* No read past the end, and so nothing to choose.
NoUB == [crash |-> FALSE, g |-> 0]

\* Lines 116-205: from the fit to the sleep, for each outcome of
\* mpc.Solve and of the reads vars[0], vars[1].
solve_and_build(ws, frame, j1, fitted) ==
  LET coeffs == fitted.fit.coeffs
      cte == polyeval(coeffs, 0)
      epsi == 0 - atan(coeffs[2])
      state == LatencyState(j1.speed, cte, epsi, steer_value(j1), throttle_value(j1))
      called(solve) ==
        [Cycle(ws, frame, "segv") EXCEPT
           !.coeffs = coeffs, !.state = state, !.solved = TRUE,
           !.ok = solve.ok, !.vars = solve.vars]
  IN  UNION {
        { IF ub.crash THEN called(solve)
          ELSE [called(solve) EXCEPT
                  !.stage = "sleep",
                  !.msg = BuildSteer(solve.vars, fitted.next, ub.g)] :
            ub \in IF Len(solve.vars) < 2 THEN UB ELSE { NoUB } } :
        solve \in SolveResults }

\* Lines 90-205: one telemetry cycle up to the sleep: the set of its
\* possible outcomes.
telemetry(ws, frame, j1) ==
  IF ~(Fields1 \subseteq j1.keys) THEN { Cycle(ws, frame, "throw") }
  ELSE UNION {
    IF ub.crash THEN { Cycle(ws, frame, "segv") }
    ELSE
      LET car == Transform(j1.ptsx, j1.ptsy, j1.x, j1.y, j1.psi, ub.g)
          fitted == Fitted(car)
      IN  IF fitted.fit.abort THEN { Cycle(ws, frame, "assert") }
          ELSE IF ~(Fields2 \subseteq j1.keys)
          THEN { [Cycle(ws, frame, "throw") EXCEPT !.coeffs = fitted.fit.coeffs] }
          ELSE solve_and_build(ws, frame, j1, fitted) :
    ub \in IF Len(j1.ptsx) > Len(j1.ptsy) THEN UB ELSE { NoUB } }

\* A handler that acknowledges every event with another tag.
onMessage_ack_all(ws, frame) ==
  LET sdata == frame.text
      s == hasData(sdata)
  IN  IF ~(Len(sdata) > 2 /\ sdata[1] = "4" /\ sdata[2] = "2")
      THEN { Cycle(ws, frame, "ignored") }
      ELSE IF s # <<>> /\ parse(s, frame.obj).event = "telemetry"
      THEN telemetry(ws, frame, parse(s, frame.obj).data)
      ELSE { [Cycle(ws, frame, "manual") EXCEPT !.out = <<ManualMsg>>] }

\* Lines 74-213: the handler from its entry to its return, to the sleep
\* before the send, or to the end of the process: the set of its possible
\* outcomes.
onMessage(ws, frame) ==
  LET sdata == frame.text IN
  IF Len(sdata) > 2 /\ sdata[1] = "4" /\ sdata[2] = "2"
  THEN LET s == hasData(sdata) IN
       IF s # <<>>
       THEN LET j == parse(s, frame.obj) IN
            IF j.event = "telemetry"
            THEN telemetry(ws, frame, j.data)
            ELSE { Cycle(ws, frame, "noevent") }
       ELSE { [Cycle(ws, frame, "manual") EXCEPT !.out = <<ManualMsg>>] }
  ELSE { Cycle(ws, frame, "ignored") }

Dead(c) == c.stage \in {"throw", "assert", "segv"}

---------------------------------------------------------------------------
(* The state machine *)

NoPrev == [conn |-> "-", frame |-> NoFrame, state |-> <<>>]

InitServe ==
  /\ inbox = [c \in Conns |-> <<>>]
  /\ arrived = 0

\* A run that starts with one telemetry frame already buffered.
InitCalc ==
  /\ \E f \in AllFrames : inbox = [c \in Conns |-> IF c = "A" THEN <<f>> ELSE <<>>]
  /\ arrived = MaxFrames

Init ==
  /\ alive = TRUE
  /\ pc = "idle"
  /\ cycle = NoCycle
  /\ prev = NoPrev
  /\ (InitServe \/ InitCalc)

\* A frame arrives on connection c and waits for the event loop.
Receive(c) ==
  /\ alive
  /\ arrived < MaxFrames
  /\ \E f \in ServeFrames : inbox' = [inbox EXCEPT ![c] = Append(@, f)]
  /\ arrived' = arrived + 1
  /\ UNCHANGED <<alive, pc, cycle, prev>>

\* h.run() dispatches the next frame of connection c to the handler; the
\* one thread of the loop runs one handler at a time.
OnMessage(c) ==
  /\ alive
  /\ pc = "idle"
  /\ inbox[c] # <<>>
  /\ cycle' \in onMessage(c, Head(inbox[c]))
  /\ inbox' = [inbox EXCEPT ![c] = Tail(@)]
  /\ alive' = ~Dead(cycle')
  /\ pc' = IF cycle'.stage = "sleep" THEN "sleep" ELSE "idle"
  /\ prev' = IF cycle.solved
             THEN [conn |-> cycle.conn, frame |-> cycle.frame, state |-> cycle.state]
             ELSE prev
  /\ UNCHANGED arrived

\* Lines 204-205: sleep_for returns and the message is sent.
WakeAndSend ==
  /\ alive
  /\ pc = "sleep"
  /\ cycle' = [cycle EXCEPT !.stage = "sent", !.out = <<cycle.msg>>]
  /\ pc' = "idle"
  /\ UNCHANGED <<alive, inbox, arrived, prev>>

Next ==
  \/ \E c \in Conns : Receive(c)
  \/ \E c \in Conns : OnMessage(c)
  \/ WakeAndSend

Spec == Init /\ [][Next]_vars

---------------------------------------------------------------------------
(* Properties *)

Lexemes(f) == { f.text[i] : i \in 1..Len(f.text) }

\* The frame is a "42" event of more than two characters.
Is42(f) == Len(f.text) > 2 /\ f.text[1] = "4" /\ f.text[2] = "2"

\* The frame holds no payload: a null, no "[", or no "}" followed by "]".
NoPayload(f) ==
  \/ "null" \in Lexemes(f)
  \/ "[" \notin Lexemes(f)
  \/ ~(\E i \in 1..(Len(f.text) - 1) : f.text[i] = "}" /\ f.text[i + 1] = "]")

\* The tag of the event a frame with a payload carries.
Tag(f) == f.text[4]

\* The last call of the handler handled a telemetry sample with every field.
Sample == Is42(cycle.frame) /\ ~NoPayload(cycle.frame)
          /\ Tag(cycle.frame) = "telemetry"
          /\ cycle.frame.obj.keys = AllFields

\* The call of the handler is over: it returned or the process ended.
Over == cycle.stage \notin {"none", "sleep"}

WellSolved == cycle.solved /\ cycle.ok /\ Len(cycle.vars) >= 2 /\ Len(cycle.vars) % 2 = 0

\* C2, for a ptsy longer than ptsx (the reads past the end of a shorter ptsy
\* are undefined): a telemetry sample whose ptsx and ptsy differ in length
\* never has a "steer" message sent for it.
C2_MismatchNeverSteers ==
  (Sample /\ Len(cycle.frame.obj.ptsx) < Len(cycle.frame.obj.ptsy))
  => cycle.stage # "sent"

\* C3: a telemetry sample with n = Len(ptsx) = Len(ptsy) < 4 points ends in
\* the failed assertion of polyfit: no coefficients are fitted (of no
\* degree), the optimizer is not called, no message is built or sent.
C3_TooFewPointsAbort ==
  (Sample /\ cycle.stage # "none"
     /\ Len(cycle.frame.obj.ptsx) = Len(cycle.frame.obj.ptsy)
     /\ Len(cycle.frame.obj.ptsx) < 4)
  => /\ cycle.stage = "assert"
     /\ cycle.coeffs = <<>>
     /\ ~cycle.solved
     /\ cycle.msg = NoMsg
     /\ cycle.out = <<>>

C3_Witness ==
  /\ Sample
  /\ Len(cycle.frame.obj.ptsx) = 3
  /\ Len(cycle.frame.obj.ptsy) = 3
  /\ cycle.stage = "assert"
  /\ ~alive

\* C4, for the odd lengths >= 3 (the reads vars[0], vars[1] of a shorter
\* result are undefined): an optimizer result of odd length never has a
\* "steer" message sent for it, and so none whose mpc_x and mpc_y differ in
\* length.
C4_OddResultRejected ==
  (cycle.solved /\ cycle.ok /\ Len(cycle.vars) >= 3 /\ Len(cycle.vars) % 2 = 1)
  => cycle.stage # "sent"

\* C5: a cycle whose optimizer call failed sends no "steer" message with
\* commands taken from the result of that call.
C5_FailureNeverActuates ==
  (cycle.solved /\ ~cycle.ok /\ Len(cycle.vars) >= 2 /\ cycle.stage = "sent")
  => \A i \in 1..Len(cycle.out) :
       ~(/\ cycle.out[i].event = "steer"
         /\ cycle.out[i].throttle = cycle.vars[2]
         /\ cycle.out[i].steering_angle
              = FDiv(0 - cycle.vars[1], FMul(deg2rad(25000), Lf)))

\* C6: while the cycle of one connection is in its delay, a frame that
\* waits on another connection can be handled.
C6_DelayBlocksNobody ==
  \A b \in Conns :
    (pc = "sleep" /\ WellSolved /\ cycle.conn # b /\ inbox[b] # <<>>)
    => ENABLED OnMessage(b)

\* A telemetry frame with every field and at least four points, as many in
\* ptsy as in ptsx.
WellFormed(f) ==
  /\ Is42(f) /\ ~NoPayload(f) /\ Tag(f) = "telemetry"
  /\ f.obj.keys = AllFields
  /\ Len(f.obj.ptsx) = Len(f.obj.ptsy)
  /\ Len(f.obj.ptsx) >= 4

\* C7: after a cycle that failed in decoding (a missing field) or in the fit
\* (too few points), the handler still serves: a well-formed telemetry frame
\* that waits on a connection can be handled.
C7_FailureLeavesServing ==
  \A c \in Conns :
    (cycle.stage \in {"throw", "assert"} /\ inbox[c] # <<>>
       /\ WellFormed(Head(inbox[c])))
    => ENABLED OnMessage(c)

\* C8: for a result r of even length n >= 2 the "steer" message carries
\* throttle = r[1], steering_angle = -r[0] / (deg2rad(25) * Lf), and
\* mpc_x[k] = r[2+2k], mpc_y[k] = r[3+2k] for k < (n-2)/2, both of length
\* (n-2)/2; it is the one message sent.
C8_ResponseFromResult ==
  (cycle.stage \in {"sleep", "sent"} /\ Len(cycle.vars) >= 2
     /\ Len(cycle.vars) % 2 = 0)
  => LET r == cycle.vars
         m == cycle.msg
         pairs == (Len(r) - 2) \div 2
     IN  /\ m.event = "steer"
         /\ m.throttle = r[2]
         /\ m.steering_angle = FDiv(0 - r[1], FMul(deg2rad(25000), Lf))
         /\ Len(m.mpc_x) = pairs
         /\ Len(m.mpc_y) = pairs
         /\ \A k \in 0..(pairs - 1) :
              m.mpc_x[k + 1] = r[2 + 2 * k + 1] /\ m.mpc_y[k + 1] = r[3 + 2 * k + 1]
         /\ cycle.stage = "sent" => cycle.out = <<m>>

C8_Witness ==
  cycle.stage = "sent" /\ Len(cycle.vars) = 6 /\ cycle.out = <<cycle.msg>>

\* The sample of the last call has steering_angle = 0 and throttle = 0 and
\* reached the optimizer.
Coasting ==
  /\ cycle.solved
  /\ cycle.frame.obj.steering_angle = 0
  /\ cycle.frame.obj.throttle = 0

\* C9 as stated: with steering_angle = 0 and throttle = 0 the state passed
\* to the optimizer is [v*dt, 0, 0, v, cte, heading error], cte and heading
\* error being those of the fit.
C9_OnlyXMoves ==
  (Coasting /\ Len(cycle.frame.obj.ptsx) = Len(cycle.frame.obj.ptsy))
  => LET v == cycle.frame.obj.speed
         cte == cycle.coeffs[1]
         epsi == 0 - atan(cycle.coeffs[2])
     IN  cycle.state = << FMul(v, dt), 0, 0, v, cte, epsi >>

\* C9 amended: with steering_angle = 0 and throttle = 0 the state passed to
\* the optimizer is [v*dt, 0, 0, v, cte + v*sin(heading error)*dt, heading
\* error]: the heading error is unchanged, the cross-track error moves by
\* v*sin(heading error)*dt.
C9_XAndCteMove ==
  Coasting
  => LET v == cycle.frame.obj.speed
         cte == cycle.coeffs[1]
         epsi == 0 - atan(cycle.coeffs[2])
     IN  cycle.state =
           << FMul(v, dt), 0, 0, v, cte + FMul(FMul(v, sin(epsi)), dt), epsi >>

C9_Witness ==
  /\ Coasting
  /\ cycle.frame.obj.speed # 0
  /\ cycle.coeffs[2] # 0
  /\ cycle.state[5] # cycle.coeffs[1]
  /\ cycle.state[6] = 0 - atan(cycle.coeffs[2])

=============================================================================
